---- MODULE Spec2Model ----
(***************************************************************************)
(* Model of the sonifai transcription backend: the note cleanup pass       *)
(* (clean_midi), the loudness gate (apply_loudness_gate), the /transcribe  *)
(* request handler of main.py and the cleanup call of evaluate.py.         *)
(*                                                                         *)
(* Times are integers counted in ticks of 2.5 ms, so that the 0.005 s      *)
(* back-off of the legato fill is 2 ticks and a gap shorter than the       *)
(* back-off (1 tick) exists.                                               *)
(***************************************************************************)
EXTENDS Integers, Sequences, FiniteSets, TLC

VARIABLES
    \* a cleanup run
    track,      \* inst.notes of the one instrument read from the input MIDI
    cfg,        \* the keyword arguments of clean_midi for this run
    out1,       \* inst.notes after clean_midi
    out2,       \* inst.notes after clean_midi applied to its own output
    cpc,        \* position of the cleanup run
    \* the cleanup calls of main.py and evaluate.py on one raw MIDI
    outSvc,     \* inst.notes after the call of main.py
    outEval,    \* inst.notes after the call of evaluate.py
    \* a loudness gate run
    y,          \* the samples librosa.load returned
    thr,        \* rms_threshold
    yGated,     \* y_gated, or the error raised instead
    gpc,        \* position of the gate run
    \* the /transcribe requests
    pc,         \* position of each request in transcribe
    uid,        \* str(uuid.uuid4()) of each request
    fname,      \* audio.filename of each request
    fs,         \* the files under UPLOAD_DIR and OUTPUT_DIR
    captured,   \* stdout and stderr captured from Basic Pitch
    midi_path,  \* the local midi_path
    resp,       \* what the handler returns or raises
    primary,    \* the return value or error in flight when finally is entered
    fin,        \* index of the finally loop
    failure,    \* what went wrong in the pipeline of each request
    created,    \* the upload and gated files each request created
    attempted,  \* the paths each request called os.remove on
    accessed    \* every file access: who, what, which file, whose file

cleanVars == <<track, cfg, out1, out2, cpc>>
parityVars == <<outSvc, outEval>>
gateVars == <<y, thr, yGated, gpc>>

handlerVars ==
    <<pc, uid, fname, fs, captured, midi_path, resp, primary, fin,
      failure, created, attempted, accessed>>

vars == <<cleanVars, parityVars, gateVars, handlerVars>>

----------------------------------------------------------------------------
(* Bounds of the model *)

MaxNotes == 2        \* notes of a raw MIDI track
MaxStart == 4        \* latest start of a note, in ticks
MaxHops == 2         \* whole hops of 512 samples in an audio buffer
NumRequests == 2     \* /transcribe requests in flight

Max(a, b) == IF a >= b THEN a ELSE b
Min(a, b) == IF a <= b THEN a ELSE b

----------------------------------------------------------------------------
(* The state of a part of the program that a specification leaves alone *)

CleanIdle ==
    /\ track = <<>>
    /\ out1 = <<>>
    /\ out2 = <<>>
    /\ cpc = "idle"

ParityIdle == outSvc = <<>> /\ outEval = <<>>

Reqs == 1..NumRequests

NoPath == [dir |-> "", name |-> <<>>]
NoResponse == [kind |-> "none"]
NoOutput == [stdout |-> "", stderr |-> ""]

HandlerIdle ==
    /\ pc = [r \in Reqs |-> "idle"]
    /\ uid = [r \in Reqs |-> ""]
    /\ fname = [r \in Reqs |-> <<>>]
    /\ fs = {}
    /\ captured = [r \in Reqs |-> NoOutput]
    /\ midi_path = [r \in Reqs |-> NoPath]
    /\ resp = [r \in Reqs |-> NoResponse]
    /\ primary = [r \in Reqs |-> NoResponse]
    /\ fin = [r \in Reqs |-> 1]
    /\ failure = [r \in Reqs |-> "none"]
    /\ created = [r \in Reqs |-> {}]
    /\ attempted = [r \in Reqs |-> {}]
    /\ accessed = {}

GateIdle ==
    /\ y = <<>>
    /\ thr = 0
    /\ yGated = [ok |-> TRUE, samples |-> <<>>]
    /\ gpc = "idle"

----------------------------------------------------------------------------
(* clean_midi *)

\* 0.005 s, the distance the legato fill keeps from the next note's start
LEGATO_BACKOFF == 2

\* the hard filter without its velocity test
KeepAnyVelocity(n, c) ==
    /\ c.min_pitch <= n.pitch
    /\ n.pitch <= c.max_pitch
    /\ (n.end - n.start) >= c.min_dur

\* 1) hard filter: pitch range + duration + velocity
Keep(n, c) ==
    /\ c.min_pitch <= n.pitch
    /\ n.pitch <= c.max_pitch
    /\ (n.end - n.start) >= c.min_dur
    /\ n.velocity >= c.min_velocity

RECURSIVE HardFilter(_, _)
HardFilter(notes, c) ==
    IF notes = <<>> THEN <<>>
    ELSE IF Keep(Head(notes), c)
         THEN <<Head(notes)>> \o HardFilter(Tail(notes), c)
         ELSE HardFilter(Tail(notes), c)

\* list.sort is stable: an element goes after every element whose key is
\* not greater than its own
PitchStartLeq(a, b) ==
    \/ a.pitch < b.pitch
    \/ a.pitch = b.pitch /\ a.start <= b.start

StartLeq(a, b) == a.start <= b.start

RECURSIVE InsertByPitchStart(_, _)
InsertByPitchStart(s, n) ==
    IF s = <<>> THEN <<n>>
    ELSE IF PitchStartLeq(Head(s), n)
         THEN <<Head(s)>> \o InsertByPitchStart(Tail(s), n)
         ELSE <<n>> \o s

RECURSIVE SortByPitchStartFrom(_, _)
SortByPitchStartFrom(sorted, rest) ==
    IF rest = <<>> THEN sorted
    ELSE SortByPitchStartFrom(InsertByPitchStart(sorted, Head(rest)), Tail(rest))

SortByPitchStart(notes) == SortByPitchStartFrom(<<>>, notes)

RECURSIVE InsertByStart(_, _)
InsertByStart(s, n) ==
    IF s = <<>> THEN <<n>>
    ELSE IF StartLeq(Head(s), n)
         THEN <<Head(s)>> \o InsertByStart(Tail(s), n)
         ELSE <<n>> \o s

RECURSIVE SortByStartFrom(_, _)
SortByStartFrom(sorted, rest) ==
    IF rest = <<>> THEN sorted
    ELSE SortByStartFrom(InsertByStart(sorted, Head(rest)), Tail(rest))

SortByStart(notes) == SortByStartFrom(<<>>, notes)

\* the merge step taking the end of the later note instead of the maximum
MergeStepLastEnd(merged, n, c) ==
    IF merged = <<>> THEN <<n>>
    ELSE LET k == Len(merged)
             prev == merged[k]
         IN IF n.pitch = prev.pitch /\ n.start <= prev.end + c.merge_gap
            THEN [merged EXCEPT ![k] =
                     [prev EXCEPT !.end = n.end,
                                  !.velocity = Max(prev.velocity, n.velocity)]]
            ELSE Append(merged, n)

\* 2) merge same pitch notes that nearly touch: one step of the loop
MergeStep(merged, n, c) ==
    IF merged = <<>> THEN <<n>>
    ELSE LET k == Len(merged)
             prev == merged[k]
         IN IF n.pitch = prev.pitch /\ n.start <= prev.end + c.merge_gap
            THEN [merged EXCEPT ![k] =
                     [prev EXCEPT !.end = Max(prev.end, n.end),
                                  !.velocity = Max(prev.velocity, n.velocity)]]
            ELSE Append(merged, n)

RECURSIVE MergeLoop(_, _, _)
MergeLoop(merged, notes, c) ==
    IF notes = <<>> THEN merged
    ELSE MergeLoop(MergeStep(merged, Head(notes), c), Tail(notes), c)

MergePass(notes, c) == MergeLoop(<<>>, SortByPitchStart(notes), c)

\* the legato step without the max(): it may pull a.end back
LegatoStepNoMax(merged, i, c) ==
    LET a == merged[i]
        b == merged[i + 1]
        gap == b.start - a.end
    IN IF 0 < gap /\ gap <= c.legato_gap
       THEN [merged EXCEPT ![i] = [a EXCEPT !.end = b.start - LEGATO_BACKOFF]]
       ELSE merged

\* the legato step with the back-off added instead of subtracted
LegatoStepPastStart(merged, i, c) ==
    LET a == merged[i]
        b == merged[i + 1]
        gap == b.start - a.end
    IN IF 0 < gap /\ gap <= c.legato_gap
       THEN [merged EXCEPT ![i] =
                [a EXCEPT !.end = Max(a.end, b.start + LEGATO_BACKOFF)]]
       ELSE merged

\* 3) legato-gap fill: iteration i of the loop (1-based)
LegatoStep(merged, i, c) ==
    LET a == merged[i]
        b == merged[i + 1]
        gap == b.start - a.end
    IN IF 0 < gap /\ gap <= c.legato_gap
       THEN [merged EXCEPT ![i] =
                [a EXCEPT !.end = Max(a.end, b.start - LEGATO_BACKOFF)]]
       ELSE merged

RECURSIVE LegatoLoop(_, _, _)
LegatoLoop(merged, i, c) ==
    IF i > Len(merged) - 1 THEN merged
    ELSE LegatoLoop(LegatoStep(merged, i, c), i + 1, c)

LegatoPass(merged, c) == LegatoLoop(SortByStart(merged), 1, c)

\* the notes of one instrument after clean_midi
CleanMidi(notes, c) == LegatoPass(MergePass(HardFilter(notes, c), c), c)

----------------------------------------------------------------------------
(* Inputs of the cleanup runs *)

Pitches == {1, 2}
Velocities == {1, 2}
Durations == {1, 2}

Notes ==
    { [pitch |-> p, start |-> s, end |-> s + d, velocity |-> v] :
        p \in Pitches, s \in 0..MaxStart, d \in Durations, v \in Velocities }

BaseConfig ==
    [min_dur |-> 1, min_velocity |-> 1, merge_gap |-> 2, legato_gap |-> 3,
     min_pitch |-> 1, max_pitch |-> 2]

\* the base thresholds, and each threshold moved on its own
Configs ==
    { BaseConfig,
      [BaseConfig EXCEPT !.min_dur = 2],
      [BaseConfig EXCEPT !.min_velocity = 2],
      [BaseConfig EXCEPT !.min_pitch = 2],
      [BaseConfig EXCEPT !.max_pitch = 1],
      [BaseConfig EXCEPT !.merge_gap = 0],
      [BaseConfig EXCEPT !.legato_gap = 1],
      [BaseConfig EXCEPT !.legato_gap = 0] }

CleanInit ==
    /\ track = <<>>
    /\ cfg \in Configs
    /\ out1 = <<>>
    /\ out2 = <<>>
    /\ cpc = "input"
    /\ ParityIdle
    /\ GateIdle
    /\ HandlerIdle

\* the raw MIDI holds one more note
AddNote ==
    /\ cpc = "input"
    /\ Len(track) < MaxNotes
    /\ \E n \in Notes : track' = Append(track, n)
    /\ UNCHANGED <<cfg, out1, out2, cpc, parityVars, gateVars, handlerVars>>

\* clean_midi(raw, cleaned, **cfg)
Clean ==
    /\ cpc = "input"
    /\ out1' = CleanMidi(track, cfg)
    /\ cpc' = "cleaned"
    /\ UNCHANGED <<track, cfg, out2, parityVars, gateVars, handlerVars>>

\* clean_midi(cleaned, cleaned2, **cfg)
CleanAgain ==
    /\ cpc = "cleaned"
    /\ out2' = CleanMidi(out1, cfg)
    /\ cpc' = "recleaned"
    /\ UNCHANGED <<track, cfg, out1, parityVars, gateVars, handlerVars>>

CleanNext == AddNote \/ Clean \/ CleanAgain

SpecClean == CleanInit /\ [][CleanNext]_vars

----------------------------------------------------------------------------
(* Properties of clean_midi, checked under SpecClean *)

\* the notes a run leaves after its merge pass, in the order of the legato fill
BeforeLegato(notes, c) == SortByStart(MergePass(HardFilter(notes, c), c))

\* two notes of one pitch that the merge pass would join
Mergeable(a, b, c) ==
    /\ a.pitch = b.pitch
    /\ a.start <= b.start
    /\ b.start <= a.end + c.merge_gap

HasMergeablePair(notes, c) ==
    \E i, j \in 1..Len(notes) : i # j /\ Mergeable(notes[i], notes[j], c)

\* C1 as stated: a second run of clean_midi with the same thresholds on the
\* output of the first run yields exactly the notes of the first run.
C1_Idempotent == cpc = "recleaned" => out2 = out1

\* C1 amended: the second run yields exactly the notes of the first run
\* whenever the first run's output holds no two notes of the same pitch with
\* later.start <= earlier.end + merge_gap.
C1_IdempotentUnlessMergeable ==
    (cpc = "recleaned" /\ ~HasMergeablePair(out1, cfg)) => out2 = out1

\* a second run on an output that the legato fill of the first run changed
C1_Witness ==
    /\ cpc = "recleaned"
    /\ Len(out1) = 2
    /\ out1 # BeforeLegato(track, cfg)
    /\ ~HasMergeablePair(out1, cfg)
    /\ out2 = out1

\* C2 as stated: consecutive notes of the output, ordered by start, never
\* overlap: a.end <= b.start.
C2_NoOverlap ==
    cpc # "input" =>
        \A i \in 1..(Len(out1) - 1) : out1[i].end <= out1[i + 1].start

\* C2 amended: the legato fill creates no overlap: for consecutive notes
\* (a, b) of the output ordered by start, a.end <= b.start unless a already
\* reached past b.start after the merge pass, and then the fill left a.end
\* as it was.
C2_NoNewOverlap ==
    cpc # "input" =>
        LET pre == BeforeLegato(track, cfg)
        IN /\ Len(out1) = Len(pre)
           /\ \A i \in 1..(Len(out1) - 1) :
                 /\ out1[i + 1].start = pre[i + 1].start
                 /\ out1[i].start <= out1[i + 1].start
                 /\ \/ out1[i].end <= out1[i + 1].start
                    \/ /\ pre[i].end > pre[i + 1].start
                       /\ out1[i].end = pre[i].end

\* the legato fill has lengthened a note up to the back-off before the next
C2_Witness ==
    /\ cpc = "cleaned"
    /\ Len(out1) = 2
    /\ out1[1].end > BeforeLegato(track, cfg)[1].end
    /\ out1[1].end = out1[2].start - LEGATO_BACKOFF

\* the input notes the hard filter is specified to let through
Admissible(n, c) ==
    ~ \/ n.pitch < c.min_pitch
      \/ n.pitch > c.max_pitch
      \/ n.end - n.start < c.min_dur
      \/ n.velocity < c.min_velocity

\* C3: a note outside the pitch range, shorter than min_dur or softer than
\* min_velocity contributes nothing to the output (the output is that of the
\* track without those notes, and every output note starts where an
\* admissible input note of its pitch starts), and every output note has
\* its pitch in [min_pitch, max_pitch], velocity >= min_velocity and
\* end > start, after the merge and legato passes.
C3_FilterInvariant ==
    cpc # "input" =>
        /\ out1 = CleanMidi(SelectSeq(track, LAMBDA n : Admissible(n, cfg)), cfg)
        /\ \A i \in 1..Len(out1) :
              /\ cfg.min_pitch <= out1[i].pitch
              /\ out1[i].pitch <= cfg.max_pitch
              /\ out1[i].velocity >= cfg.min_velocity
              /\ out1[i].end > out1[i].start
              /\ \E k \in 1..Len(track) :
                    /\ Admissible(track[k], cfg)
                    /\ track[k].pitch = out1[i].pitch
                    /\ track[k].start = out1[i].start
              /\ \E k \in 1..Len(track) :
                    /\ Admissible(track[k], cfg)
                    /\ track[k].velocity = out1[i].velocity

\* a track with a rejected and an accepted note has been cleaned
C3_Witness ==
    /\ cpc = "cleaned"
    /\ Len(track) = 2
    /\ ~Admissible(track[1], cfg)
    /\ Admissible(track[2], cfg)
    /\ Len(out1) = 1

\* C4: when exactly two notes survive the hard filter and they have the same
\* pitch, with n1 the one that starts first: if n2.start <= n1.end +
\* merge_gap the output is one note [n1.start, max(n1.end, n2.end)] of
\* velocity max(v1, v2); otherwise the output holds two notes.
C4_MergeRule ==
    cpc # "input" =>
        \A i, j \in 1..Len(track) :
            ( /\ i # j
              /\ \A k \in 1..Len(track) : Admissible(track[k], cfg) <=> k \in {i, j}
              /\ track[i].pitch = track[j].pitch
              /\ track[i].start <= track[j].start )
            => IF track[j].start <= track[i].end + cfg.merge_gap
               THEN out1 = << [pitch |-> track[i].pitch,
                               start |-> track[i].start,
                               end |-> Max(track[i].end, track[j].end),
                               velocity |-> Max(track[i].velocity, track[j].velocity)] >>
               ELSE /\ Len(out1) = 2
                    /\ out1[1] # out1[2]
                    /\ out1[1].start = track[i].start
                    /\ out1[2].start = track[j].start

\* two surviving notes of one pitch were merged; the second is the louder
\* and the first ends last
C4_Witness ==
    /\ cpc = "cleaned"
    /\ Len(track) = 2
    /\ Admissible(track[1], cfg) /\ Admissible(track[2], cfg)
    /\ track[1].pitch = track[2].pitch
    /\ track[1].start <= track[2].start
    /\ track[1].end > track[2].end
    /\ track[1].velocity < track[2].velocity
    /\ Len(out1) = 1

----------------------------------------------------------------------------
(* The cleanup calls of main.py and evaluate.py.  The thresholds are the     *)
(* constants of the two files; seconds are written in ticks of 2.5 ms.      *)

CLEAN_MIN_DUR == 64             \* 0.16 s
CLEAN_MIN_VELOCITY == 28
CLEAN_MERGE_GAP == 20           \* 0.05 s
CLEAN_LEGATO_GAP == 32          \* 0.08 s
CLEAN_MIN_PITCH == 43
CLEAN_MAX_PITCH == 80

EVAL_CLEAN_MIN_DUR == 64        \* 0.16 s
EVAL_CLEAN_MIN_VELOCITY == 28
EVAL_CLEAN_MERGE_GAP == 20      \* 0.05 s
EVAL_CLEAN_LEGATO_GAP == 32     \* 0.08 s
EVAL_CLEAN_MIN_PITCH == 43
EVAL_CLEAN_MAX_PITCH == 108

\* the keyword arguments of the call in transcribe
ServiceArgs ==
    [min_dur |-> CLEAN_MIN_DUR, min_velocity |-> CLEAN_MIN_VELOCITY,
     merge_gap |-> CLEAN_MERGE_GAP, min_pitch |-> CLEAN_MIN_PITCH,
     max_pitch |-> CLEAN_MAX_PITCH, legato_gap |-> CLEAN_LEGATO_GAP]

\* the keyword arguments of the call in evaluate.py
EvalArgs ==
    [min_dur |-> EVAL_CLEAN_MIN_DUR, min_velocity |-> EVAL_CLEAN_MIN_VELOCITY,
     merge_gap |-> EVAL_CLEAN_MERGE_GAP, min_pitch |-> EVAL_CLEAN_MIN_PITCH,
     max_pitch |-> EVAL_CLEAN_MAX_PITCH, legato_gap |-> EVAL_CLEAN_LEGATO_GAP]

\* clean_midi of evaluate.py: the same three passes, statement for statement
EvalCleanMidi(notes, c) == LegatoPass(MergePass(HardFilter(notes, c), c), c)

\* raw notes around the thresholds of the two files
RawPitches == {42, 43, 80, 81, 108, 109}
RawVelocities == {27, 28}
RawStarts == {0, 84, 96}
RawDurations == {63, 64}

RawNotes ==
    { [pitch |-> p, start |-> s, end |-> s + d, velocity |-> v] :
        p \in RawPitches, s \in RawStarts, d \in RawDurations,
        v \in RawVelocities }

ParityInit ==
    /\ track = <<>>
    /\ cfg = ServiceArgs
    /\ out1 = <<>>
    /\ out2 = <<>>
    /\ cpc = "raw"
    /\ ParityIdle
    /\ GateIdle
    /\ HandlerIdle

\* Basic Pitch wrote one more note into the raw MIDI
RawNote ==
    /\ cpc = "raw"
    /\ Len(track) < MaxNotes
    /\ \E n \in RawNotes : track' = Append(track, n)
    /\ UNCHANGED <<cfg, out1, out2, cpc, parityVars, gateVars, handlerVars>>

\* main.py: clean_midi(midi_path, cleaned_path, min_dur=CLEAN_MIN_DUR, ...)
ServiceClean ==
    /\ cpc = "raw"
    /\ outSvc' = CleanMidi(track, ServiceArgs)
    /\ cpc' = "service"
    /\ UNCHANGED <<track, cfg, out1, out2, outEval, gateVars, handlerVars>>

\* evaluate.py: clean_midi(raw_midi_path, cleaned_midi_path, min_dur=...)
EvalClean ==
    /\ cpc = "service"
    /\ outEval' = EvalCleanMidi(track, EvalArgs)
    /\ cpc' = "both"
    /\ UNCHANGED <<track, cfg, out1, out2, outSvc, gateVars, handlerVars>>

ParityNext == RawNote \/ ServiceClean \/ EvalClean

SpecParity == ParityInit /\ [][ParityNext]_vars

\* C8: the cleanup call of evaluate.py yields the same notes as the cleanup
\* call of main.py on the same raw MIDI.
C8_SameCleanup == cpc = "both" => outEval = outSvc

----------------------------------------------------------------------------
(* apply_loudness_gate.  Samples and the threshold are integers counted in  *)
(* hundredths of full scale; an RMS value is kept as the sum of squares of  *)
(* its frame, so that rms >= t is sum >= t * t * frame_length.              *)

FRAME_LENGTH == 2048
HOP_LENGTH == 512
REPEATS == 512
RMS_THRESHOLD == 2              \* 0.02

\* the sum of yy[j] * yy[j] for j in lo..hi, both inside 1..Len(yy)
RECURSIVE SumSq(_, _, _)
SumSq(yy, lo, hi) ==
    IF lo > hi THEN 0
    ELSE IF lo = hi THEN yy[lo] * yy[lo]
    ELSE LET mid == (lo + hi) \div 2
         IN SumSq(yy, lo, mid) + SumSq(yy, mid + 1, hi)

\* librosa counts frames without centring: none before a whole frame fits
NumFramesUncentred(n) ==
    IF n < FRAME_LENGTH THEN 0 ELSE 1 + (n - FRAME_LENGTH) \div HOP_LENGTH

\* librosa.feature.rms, center=True: the signal is padded by frame_length // 2
\* zeros on both sides and cut into frames hop_length apart
NumFrames(n) ==
    1 + ((n + 2 * (FRAME_LENGTH \div 2)) - FRAME_LENGTH) \div HOP_LENGTH

\* frame t (0-based) covers the samples t*hop - frame_length//2 + 1 ..
\* t*hop + frame_length//2 (1-based), zeros outside the signal
FrameEnergy(yy, t) ==
    SumSq(yy,
          Max(1, t * HOP_LENGTH - (FRAME_LENGTH \div 2) + 1),
          Min(Len(yy), t * HOP_LENGTH + (FRAME_LENGTH \div 2)))

Rms(yy) == [t \in 1..NumFrames(Len(yy)) |-> FrameEnergy(yy, t - 1)]

\* np.repeat(rms, 512)[: len(y)]
RmsExpanded(rms, n) ==
    [i \in 1..Min(Len(rms) * REPEATS, n) |-> rms[((i - 1) \div REPEATS) + 1]]

RmsAtLeast(energy, t) == energy >= t * t * FRAME_LENGTH

\* np.where(rms_expanded >= rms_threshold, y, 0.0): the shapes must agree
GateWhere(expanded, yy, t) ==
    IF Len(expanded) # Len(yy)
    THEN [ok |-> FALSE, samples |-> <<>>]
    ELSE [ok |-> TRUE,
          samples |-> [i \in 1..Len(yy) |->
                          IF RmsAtLeast(expanded[i], t) THEN yy[i] ELSE 0]]

ApplyLoudnessGate(yy, t) == GateWhere(RmsExpanded(Rms(yy), Len(yy)), yy, t)

\* buffers that are constant over each hop, with a last hop that may be short
Amplitudes == {0, 3, -4}
PartialLengths == {0, 1, 511}
GateThresholds == {1, RMS_THRESHOLD}

Signal(h, r, amp) ==
    [i \in 1..(h * HOP_LENGTH + r) |-> amp[((i - 1) \div HOP_LENGTH) + 1]]

Signals ==
    UNION { { Signal(h, r, amp) : amp \in [1..(h + 1) -> Amplitudes] } :
              h \in 0..MaxHops, r \in PartialLengths }

GateInit ==
    /\ CleanIdle
    /\ cfg = BaseConfig
    /\ ParityIdle
    /\ y \in Signals
    /\ thr \in GateThresholds
    /\ yGated = [ok |-> TRUE, samples |-> <<>>]
    /\ gpc = "loaded"
    /\ HandlerIdle

\* apply_loudness_gate(input_wav, output_wav, rms_threshold)
GateRun ==
    /\ gpc = "loaded"
    /\ yGated' = ApplyLoudnessGate(y, thr)
    /\ gpc' = "written"
    /\ UNCHANGED <<y, thr, cleanVars, parityVars, handlerVars>>

GateNext == GateRun

SpecGate == GateInit /\ [][GateNext]_vars

\* C10: the gated buffer has exactly len(y) samples, and every sample whose
\* window (the frame centred on the start of its hop, last partial hop
\* included) has an RMS below the threshold is 0, every other sample is the
\* input sample.
C10_GateShape ==
    gpc = "written" =>
        /\ yGated.ok
        /\ Len(yGated.samples) = Len(y)
        /\ \A t \in 0..((Len(y) - 1) \div HOP_LENGTH) :
              LET below == FrameEnergy(y, t) < thr * thr * FRAME_LENGTH
              IN \A i \in (t * HOP_LENGTH + 1)..Min((t + 1) * HOP_LENGTH, Len(y)) :
                    yGated.samples[i] = IF below THEN 0 ELSE y[i]

\* a buffer that ends in a partial hop: the last sample, in the partial hop,
\* is kept and the first hop is silenced
C10_Witness ==
    /\ gpc = "written"
    /\ Len(y) > HOP_LENGTH
    /\ Len(y) % HOP_LENGTH # 0
    /\ yGated.ok
    /\ y[1] # 0 /\ yGated.samples[1] = 0
    /\ y[Len(y)] # 0 /\ yGated.samples[Len(y)] = y[Len(y)]

----------------------------------------------------------------------------
(* transcribe.  A file name is a sequence of tokens: the uuid, "_", the     *)
(* pieces of the uploaded name, an extension.  A file is a record of its    *)
(* path, the request that created it and what it holds.                     *)

otherVars == <<cleanVars, parityVars, gateVars>>

\* uuid.uuid4(): a value of fixed length that no other call returns
UuidPool == <<"u1", "u2", "u3", "u4">>
Uuid4(r) == UuidPool[r]

\* audio.filename: chosen by the client
Extensions == {".wav", ".mp3", ".mid"}
Names == { <<"a", ".wav">>, <<"*", "_gated", ".mp3">> }

\* os.path.splitext(p)[0]
SplitextRoot(name) ==
    IF Len(name) > 1 /\ name[Len(name)] \in Extensions
    THEN SubSeq(name, 1, Len(name) - 1)
    ELSE name

\* the uploaded name used as it is
InputFilenameBare(u, name) == name

\* f"{uuid.uuid4()}_{audio.filename}"
InputFilename(u, name) == <<u, "_">> \o name

InputPath(r) == [dir |-> "uploads", name |-> InputFilename(uid[r], fname[r])]

GatedPath(r) ==
    [dir |-> "uploads",
     name |-> SplitextRoot(InputPath(r).name) \o <<"_gated", ".wav">>]

\* stem = os.path.splitext(os.path.basename(gated_path))[0]
Stem(r) == SplitextRoot(GatedPath(r).name)

\* os.path.join(OUTPUT_DIR, stem + "*.mid")
GlobPattern(r) == Stem(r) \o <<"*", ".mid">>

\* glob: "*" stands for any run of tokens, every other token for itself
RECURSIVE GlobMatch(_, _)
GlobMatch(pat, name) ==
    IF pat = <<>> THEN name = <<>>
    ELSE IF Head(pat) = "*"
         THEN \/ GlobMatch(Tail(pat), name)
              \/ name # <<>> /\ GlobMatch(pat, Tail(name))
         ELSE /\ name # <<>>
              /\ Head(pat) = Head(name)
              /\ GlobMatch(Tail(pat), Tail(name))

\* glob.glob(os.path.join(OUTPUT_DIR, stem + "*.mid"))
Matches(r) ==
    { f \in fs : f.path.dir = "outputs" /\ GlobMatch(GlobPattern(r), f.path.name) }

\* Basic Pitch names its MIDI after the audio file it was given
BasicPitchOutput(gated) ==
    [dir |-> "outputs",
     name |-> SplitextRoot(gated.name) \o <<"_basic_pitch", ".mid">>]

\* os.path.splitext(midi_path)[0] + "_clean.mid"
CleanedPath(midi) ==
    [dir |-> "outputs", name |-> SplitextRoot(midi.name) \o <<"_clean", ".mid">>]

\* the finally loop over the upload alone
CleanupPathsInputOnly(r) == <<InputPath(r)>>

\* for p in [input_path, gated_path]
CleanupPaths(r) == <<InputPath(r), GatedPath(r)>>

Exists(p) == \E f \in fs : f.path = p

OwnerOf(p) == (CHOOSE f \in fs : f.path = p).owner

WriteFile(files, p, r, kind) ==
    { f \in files : f.path # p }
        \cup { [path |-> p, owner |-> r, kind |-> kind] }

RemoveFile(files, p) == { f \in files : f.path # p }

\* an access of request r to path p, with the request whose file p is
Access(r, op, p) ==
    [req |-> r, op |-> op, path |-> p,
     owner |-> IF Exists(p) THEN OwnerOf(p) ELSE r]

JsonResponse(body) == [kind |-> "json", body |-> body]
FileResponse(p) == [kind |-> "file", path |-> p]
Unhandled(e) == [kind |-> "unhandled", exc |-> e.type]

CalledProcessError(out) ==
    [type |-> "CalledProcessError", msg |-> "returned non-zero exit status",
     stdout |-> out.stdout, stderr |-> out.stderr]

OtherError(type) == [type |-> type, msg |-> "str(e)", stdout |-> "", stderr |-> ""]

\* the except clauses without the catch-all
ExceptCalledProcessErrorOnly(e) ==
    IF e.type = "CalledProcessError"
    THEN JsonResponse([error |-> "Basic Pitch failed (CLI error).",
                       stdout |-> e.stdout, stderr |-> e.stderr])
    ELSE Unhandled(e)

\* except subprocess.CalledProcessError as e / except Exception as e
Except(e) ==
    IF e.type = "CalledProcessError"
    THEN JsonResponse([error |-> "Basic Pitch failed (CLI error).",
                       stdout |-> e.stdout, stderr |-> e.stderr])
    ELSE JsonResponse([error |-> e.msg])

\* try: os.remove(p) / except: pass -- the result in flight stays
AfterRemove(inflight, outcome) == inflight

\* the try block is left with `result` (a return value or a handled error)
EnterFinally(r, result) ==
    /\ resp' = [resp EXCEPT ![r] = result]
    /\ primary' = [primary EXCEPT ![r] = result]
    /\ pc' = [pc EXCEPT ![r] = "finally"]

Goto(r, next) ==
    /\ pc' = [pc EXCEPT ![r] = next]
    /\ UNCHANGED <<resp, primary>>

HandlerInit ==
    /\ CleanIdle
    /\ cfg = BaseConfig
    /\ ParityIdle
    /\ GateIdle
    /\ HandlerIdle

\* a request arrives: lines 113-119
Receive(r) ==
    /\ pc[r] = "idle"
    /\ uid' = [uid EXCEPT ![r] = Uuid4(r)]
    /\ \E n \in Names : fname' = [fname EXCEPT ![r] = n]
    /\ Goto(r, "persist")
    /\ UNCHANGED <<fs, captured, midi_path, fin, failure, created,
                   attempted, accessed, otherVars>>

\* with open(input_path, "wb") as f: f.write(await audio.read())
Persist(r) ==
    /\ pc[r] = "persist"
    /\ LET p == InputPath(r)
       IN \/ /\ fs' = WriteFile(fs, p, r, "upload")
             /\ created' = [created EXCEPT ![r] = @ \cup {p}]
             /\ accessed' = accessed \cup {Access(r, "write", p)}
             /\ Goto(r, "gate")
             /\ UNCHANGED failure
          \/ \* open raises
             /\ EnterFinally(r, Except(OtherError("OSError")))
             /\ failure' = [failure EXCEPT ![r] = "other"]
             /\ UNCHANGED <<fs, created, accessed>>
          \/ \* the file is created, then the read or the write raises
             /\ fs' = WriteFile(fs, p, r, "upload")
             /\ created' = [created EXCEPT ![r] = @ \cup {p}]
             /\ accessed' = accessed \cup {Access(r, "write", p)}
             /\ EnterFinally(r, Except(OtherError("OSError")))
             /\ failure' = [failure EXCEPT ![r] = "other"]
    /\ UNCHANGED <<uid, fname, captured, midi_path, fin, attempted,
                   otherVars>>

\* apply_loudness_gate(input_path, gated_path, RMS_THRESHOLD)
GateAudio(r) ==
    /\ pc[r] = "gate"
    /\ LET p == InputPath(r)
           g == GatedPath(r)
       IN \/ /\ fs' = WriteFile(fs, g, r, "gated")
             /\ created' = [created EXCEPT ![r] = @ \cup {g}]
             /\ accessed' = accessed
                    \cup {Access(r, "read", p), Access(r, "write", g)}
             /\ Goto(r, "invoke")
             /\ UNCHANGED failure
          \/ \* librosa.load raises: the upload is no audio
             /\ accessed' = accessed \cup {Access(r, "read", p)}
             /\ EnterFinally(r, Except(OtherError("ValueError")))
             /\ failure' = [failure EXCEPT ![r] = "other"]
             /\ UNCHANGED <<fs, created>>
          \/ \* sf.write raises after it created the file
             /\ fs' = WriteFile(fs, g, r, "gated")
             /\ created' = [created EXCEPT ![r] = @ \cup {g}]
             /\ accessed' = accessed
                    \cup {Access(r, "read", p), Access(r, "write", g)}
             /\ EnterFinally(r, Except(OtherError("OSError")))
             /\ failure' = [failure EXCEPT ![r] = "other"]
    /\ UNCHANGED <<uid, fname, captured, midi_path, fin, attempted,
                   otherVars>>

\* subprocess.run(command, check=True, capture_output=True, ...)
RunBasicPitch(r) ==
    /\ pc[r] = "invoke"
    /\ LET g == GatedPath(r)
           m == BasicPitchOutput(g)
           out0 == [stdout |-> "stdout of exit 0", stderr |-> "stderr of exit 0"]
           out1x == [stdout |-> "stdout of exit 1", stderr |-> "stderr of exit 1"]
       IN \/ \* exit 0, the MIDI is written
             /\ fs' = WriteFile(fs, m, r, "raw")
             /\ accessed' = accessed
                    \cup {Access(r, "read", g), Access(r, "write", m)}
             /\ captured' = [captured EXCEPT ![r] = out0]
             /\ Goto(r, "locate")
             /\ UNCHANGED failure
          \/ \* exit 0, no MIDI is written
             /\ accessed' = accessed \cup {Access(r, "read", g)}
             /\ captured' = [captured EXCEPT ![r] = out0]
             /\ failure' = [failure EXCEPT ![r] = "no_output"]
             /\ Goto(r, "locate")
             /\ UNCHANGED fs
          \/ \* exit status not 0: check=True raises CalledProcessError
             /\ accessed' = accessed \cup {Access(r, "read", g)}
             /\ captured' = [captured EXCEPT ![r] = out1x]
             /\ failure' = [failure EXCEPT ![r] = "tool_exit"]
             /\ EnterFinally(r, Except(CalledProcessError(out1x)))
             /\ UNCHANGED fs
          \/ \* the program cannot be started
             /\ failure' = [failure EXCEPT ![r] = "other"]
             /\ EnterFinally(r, Except(OtherError("FileNotFoundError")))
             /\ UNCHANGED <<fs, accessed, captured>>
    /\ UNCHANGED <<uid, fname, midi_path, fin, created, attempted, otherVars>>

\* matches = glob.glob(...); if not matches: return {...};
\* midi_path = max(matches, key=os.path.getmtime)
LocateMidi(r) ==
    /\ pc[r] = "locate"
    /\ IF Matches(r) = {}
       THEN /\ EnterFinally(r,
                  JsonResponse([error |-> "No MIDI file produced by Basic Pitch.",
                                stdout |-> captured[r].stdout,
                                stderr |-> captured[r].stderr]))
            /\ UNCHANGED <<midi_path, accessed>>
       ELSE \* modification times are not kept: any match may be the newest
            /\ \E m \in Matches(r) :
                  /\ midi_path' = [midi_path EXCEPT ![r] = m.path]
                  /\ accessed' = accessed \cup {Access(r, "select", m.path)}
            /\ Goto(r, "clean")
    /\ UNCHANGED <<uid, fname, fs, captured, fin, failure, created,
                   attempted, otherVars>>

\* clean_midi(midi_path, cleaned_path, ...); return FileResponse(cleaned_path)
CleanMidiFile(r) ==
    /\ pc[r] = "clean"
    /\ LET c == CleanedPath(midi_path[r])
       IN \/ /\ fs' = WriteFile(fs, c, r, "cleaned")
             /\ accessed' = accessed
                    \cup {Access(r, "read", midi_path[r]), Access(r, "write", c)}
             /\ EnterFinally(r, FileResponse(c))
             /\ UNCHANGED failure
          \/ \* pretty_midi cannot read the file
             /\ accessed' = accessed \cup {Access(r, "read", midi_path[r])}
             /\ failure' = [failure EXCEPT ![r] = "other"]
             /\ EnterFinally(r, Except(OtherError("ValueError")))
             /\ UNCHANGED fs
    /\ UNCHANGED <<uid, fname, captured, midi_path, fin, created, attempted,
                   otherVars>>

\* one iteration of the finally loop; after the last one the handler is
\* left, and a FileResponse then sends its file
FinallyStep(r) ==
    /\ pc[r] = "finally"
    /\ fin[r] <= Len(CleanupPaths(r))
    /\ LET p == CleanupPaths(r)[fin[r]]
           last == fin[r] = Len(CleanupPaths(r))
           sent == IF last /\ resp[r].kind = "file"
                   THEN {Access(r, "read", resp[r].path)}
                   ELSE {}
       IN /\ IF Exists(p)
             THEN /\ attempted' = [attempted EXCEPT ![r] = @ \cup {p}]
                  /\ accessed' = accessed \cup {Access(r, "delete", p)} \cup sent
                  /\ \/ /\ fs' = RemoveFile(fs, p)
                        /\ resp' = [resp EXCEPT ![r] = AfterRemove(@, "removed")]
                     \/ \* os.remove raises
                        /\ fs' = fs
                        /\ resp' = [resp EXCEPT ![r] = AfterRemove(@, "OSError")]
             ELSE /\ accessed' = accessed \cup sent
                  /\ UNCHANGED <<attempted, fs, resp>>
          /\ pc' = [pc EXCEPT ![r] = IF last THEN "done" ELSE "finally"]
    /\ fin' = [fin EXCEPT ![r] = @ + 1]
    /\ UNCHANGED <<uid, fname, captured, midi_path, primary, failure, created,
                   otherVars>>

\* the requests may be served by different workers: every file operation
\* of one request is a step the others can interleave with
HandlerNext ==
    \E r \in Reqs :
        \/ Receive(r)
        \/ Persist(r)
        \/ GateAudio(r)
        \/ RunBasicPitch(r)
        \/ LocateMidi(r)
        \/ CleanMidiFile(r)
        \/ FinallyStep(r)

SpecHandler == HandlerInit /\ [][HandlerNext]_vars

----------------------------------------------------------------------------
(* Properties of transcribe, checked under SpecHandler *)

\* C5: when the handler is left, on whatever path, os.remove has been called
\* on every upload and gated file the request created, and what the handler
\* delivers is the return value or error that was in flight when the finally
\* block was entered, also when a removal failed.
C5_TempCleanup ==
    \A r \in Reqs :
        pc[r] = "done" =>
            /\ created[r] \subseteq attempted[r]
            /\ primary[r] # NoResponse
            /\ resp[r] = primary[r]

\* a request whose tool run failed is left with both files created and a
\* removal that failed
C5_Witness ==
    \E r \in Reqs :
        /\ pc[r] = "done"
        /\ failure[r] = "tool_exit"
        /\ created[r] = {InputPath(r), GatedPath(r)}
        /\ Exists(GatedPath(r))
        /\ ~Exists(InputPath(r))
        /\ resp[r].kind = "json"

\* C6: once the response is produced, the raw MIDI that Basic Pitch wrote
\* into OUTPUT_DIR for the request is no longer on the filesystem.
C6_RawMidiDeleted ==
    \A r \in Reqs :
        pc[r] = "done" => ~ \E f \in fs : f.kind = "raw" /\ f.owner = r

ErrorFields(body, names) ==
    /\ DOMAIN body = names
    /\ body.error # ""

\* C7: every failure ends in an error payload, never in an exception that
\* leaves the handler: (a) exit status not 0 and (b) exit 0 without a
\* matching file give error, stdout and stderr, with the captured output;
\* (c) any other exception gives an error message.
C7_ErrorResponses ==
    \A r \in Reqs :
        pc[r] = "done" =>
            /\ resp[r].kind \in {"file", "json"}
            /\ failure[r] = "none" <=> resp[r].kind = "file"
            /\ failure[r] \in {"tool_exit", "no_output"} =>
                  /\ ErrorFields(resp[r].body, {"error", "stdout", "stderr"})
                  /\ resp[r].body.stdout = captured[r].stdout
                  /\ resp[r].body.stderr = captured[r].stderr
                  /\ captured[r] # NoOutput
            /\ failure[r] = "other" => ErrorFields(resp[r].body, {"error"})

\* one request ended on a missing output, another on an exception of the
\* gate
C7_Witness ==
    \E r, q \in Reqs :
        /\ pc[r] = "done" /\ failure[r] = "no_output"
        /\ pc[q] = "done" /\ failure[q] = "other" /\ Exists(InputPath(q)) = FALSE
        /\ created[q] # {}

\* C9: no request writes, reads, selects as its MIDI or deletes a file that
\* was created by or for another request, and the pattern of a request
\* matches no file of another request.
C9_Isolation ==
    /\ \A a \in accessed : a.owner = a.req
    /\ \A r \in Reqs :
          pc[r] # "idle" => \A f \in Matches(r) : f.owner = r

\* two requests with the same uploaded name, a name with a wildcard: one
\* has its raw MIDI in OUTPUT_DIR while the other selects its own
C9_Witness ==
    \E r, q \in Reqs :
        /\ r # q
        /\ fname[r] = fname[q]
        /\ "*" \in { fname[r][k] : k \in 1..Len(fname[r]) }
        /\ pc[r] = "clean"
        /\ pc[q] = "locate"
        /\ \E f \in fs : f.kind = "raw" /\ f.owner = q
        /\ \E a \in accessed : a.req = r /\ a.op = "select"

====
